---- MODULE Spec2Model ----
(***************************************************************************)
(* Model of the chat turn handler of src/index.tsx (component App):        *)
(* handleSubmit with its multi-agent pipeline, the memory extraction task, *)
(* the bypass path, title generation, and the session handlers that can    *)
(* run while a turn is pending.                                            *)
(*                                                                         *)
(* Strings are sequences of tokens, so that trim() and includes() are      *)
(* computed and not assumed.  The token " " is whitespace.                 *)
(*                                                                         *)
(* JavaScript runs a handler, and every promise continuation that becomes  *)
(* ready without a timer, network or file event, to completion before the  *)
(* next event is taken.  An action is therefore one event together with    *)
(* all continuations it makes ready.                                       *)
(***************************************************************************)
EXTENDS Integers, Sequences, FiniteSets, TLC

\* ---------------------------------------------------------------- bounds
MaxTurns == 1
MaxChats == 2
MaxResubmitTurns == 2

\* ------------------------------------------------------- program constants
AgentCount == 4

IMAGE_MODEL == "gemini-2.5-flash-image-preview"
TEXT_MODEL == "gemini-2.5-flash"
HELPER_MODEL == "gemini-1.5-flash"

NoFile == "nofile"
NoChat == 0

\* ------------------------------------------------------------ input sets
Files == {"f1"}
UserInputs == {<<" ">>, <<" ", "hi">>}
MemoryTexts == {<<"NO_UPDATE">>, <<" ", "fact1">>}
InitialMemories == {<<>>, << <<"fact1">> >>}
ApiKeys == {<<>>, <<"key">>}

\* ------------------------------------------------------------- strings
RECURSIVE TrimStart(_)
TrimStart(s) ==
    IF s = <<>> THEN <<>>
    ELSE IF Head(s) = " " THEN TrimStart(Tail(s)) ELSE s

RECURSIVE TrimEnd(_)
TrimEnd(s) ==
    IF s = <<>> THEN <<>>
    ELSE IF s[Len(s)] = " " THEN TrimEnd(SubSeq(s, 1, Len(s) - 1)) ELSE s

Trim(s) == TrimEnd(TrimStart(s))

Includes(s, tok) == \E k \in DOMAIN s : s[k] = tok

SeqIncludes(list, x) == \E k \in DOMAIN list : list[k] = x


\* ------------------------------------------------------- messages, turns
\* Part (line 4, @google/genai): a text segment or an inline blob.
TextPart(t) == [type |-> "text", text |-> t, file |-> NoFile]

InlinePart(f) == [type |-> "inlineData", text |-> <<>>, file |-> f]

\* Message (lines 25-33).  attachmentName and groundingChunks are display
\* data read by no handler and are left out.
UserMessage(trimmedInput, attachment) ==
    [role |-> "user",
     parts |-> IF trimmedInput # <<>> THEN <<TextPart(trimmedInput)>> ELSE <<>>,
     file |-> attachment,
     memoryUpdated |-> FALSE]

ModelMessage(parts, memoryUpdated) ==
    [role |-> "model", parts |-> parts, file |-> NoFile,
     memoryUpdated |-> memoryUpdated]

Content(role, parts) == [role |-> role, parts |-> parts]

NewChat(id) == [id |-> id, title |-> <<"New Chat">>, messages |-> <<>>]

\* ------------------------------------------------------------- errors
\* A thrown value: an Error with a message (a token sequence).
ErrorOf(message) == [isError |-> TRUE, message |-> message]

GatewayErrors ==
    {ErrorOf(<<"RESOURCE_EXHAUSTED">>),
     ErrorOf(<<"API key not valid">>),
     ErrorOf(<<"RESOURCE_EXHAUSTED", "API key not valid">>),
     ErrorOf(<<"fetch failed">>)}

NoKeyError == ErrorOf(<<"API key is not set. Please add it in Settings.">>)

QUOTA_TEXT == <<"Anda telah melebihi kuota API Anda saat ini.">>
BADKEY_TEXT == <<"API key tidak valid.">>
DEFAULT_ERROR_TEXT == <<"Sorry, I encountered an error. Please try again.">>
APOLOGY_TEXT == <<"Sorry, failed to process the attached file.">>
FALLBACK_TEXT == <<"Could not get a response.">>

\* variant: the two substring tests in the other order
ErrorMessageTextKeyFirst(error) ==
    IF ~error.isError THEN DEFAULT_ERROR_TEXT
    ELSE IF Includes(error.message, "API key not valid") THEN BADKEY_TEXT
    ELSE IF Includes(error.message, "RESOURCE_EXHAUSTED") THEN QUOTA_TEXT
    ELSE <<"Terjadi kesalahan: ">> \o error.message

\* catch block of handleSubmit, lines 1277-1287
ErrorMessageText(error) ==
    IF ~error.isError THEN DEFAULT_ERROR_TEXT
    ELSE IF Includes(error.message, "RESOURCE_EXHAUSTED") THEN QUOTA_TEXT
    ELSE IF Includes(error.message, "API key not valid") THEN BADKEY_TEXT
    ELSE <<"Terjadi kesalahan: ">> \o error.message

ErrorMessage(error) == ModelMessage(<<TextPart(ErrorMessageText(error))>>, FALSE)


\* ------------------------------------------------ conversation building
\* process.env.API_KEY of lines 1074 and 1163: a build without a baked-in key.
ENV_API_KEY == <<>>

FinalApiKey(key) == IF key # <<>> THEN key ELSE ENV_API_KEY

HasFile(msg) == msg.role = "user" /\ msg.file # NoFile

FileIndexes(messages) == {k \in DOMAIN messages : HasFile(messages[k])}

\* variant: a message whose file could not be read is left out of the list
RECURSIVE BuildApiHistoryWithoutFailed(_, _)
BuildApiHistoryWithoutFailed(messages, failed) ==
    IF messages = <<>> THEN <<>>
    ELSE LET k == Len(messages)
             msg == messages[k]
             rest == BuildApiHistoryWithoutFailed(SubSeq(messages, 1, k - 1), failed)
         IN  IF HasFile(msg) /\ k \in failed THEN rest
             ELSE rest \o <<Content(msg.role,
                                    IF HasFile(msg)
                                    THEN <<InlinePart(msg.file)>> \o msg.parts
                                    ELSE msg.parts)>>

\* buildApiHistory, lines 1113-1127.  failed: the indexes of the messages
\* whose file could not be read (the catch of line 1121 leaves them as they are).
BuildApiHistory(messages, failed) ==
    [k \in DOMAIN messages |->
        Content(messages[k].role,
                IF HasFile(messages[k]) /\ k \notin failed
                THEN <<InlinePart(messages[k].file)>> \o messages[k].parts
                ELSE messages[k].parts)]

\* lines 1170-1184
UserPartsForApi(trimmedInput, filePart) ==
    filePart \o (IF trimmedInput # <<>> THEN <<TextPart(trimmedInput)>> ELSE <<>>)

\* lines 1208-1213: '' for an empty memory, else the framed list of facts
RECURSIVE JoinFacts(_)
JoinFacts(facts) ==
    IF facts = <<>> THEN <<>>
    ELSE <<"- ">> \o Head(facts) \o JoinFacts(Tail(facts))

MemoryContext(mem) ==
    IF Len(mem) > 0
    THEN <<"--- Start User Memory ---">> \o JoinFacts(mem)
             \o <<"--- End User Memory ---">>
    ELSE <<>>

\* `${x}` of a template literal: an undefined value prints as "undefined"
UNDEFINED == <<"<undefined>">>

Str(x) == IF x = UNDEFINED THEN <<"undefined">> ELSE x

\* line 1240
PartText(part, attachment) ==
    IF part.type = "text" THEN part.text
    ELSE <<"[Attachment: ", (IF attachment # NoFile THEN attachment ELSE "file"), "]">>

RECURSIVE JoinLines(_, _)
JoinLines(parts, attachment) ==
    IF parts = <<>> THEN <<>>
    ELSE IF Len(parts) = 1 THEN PartText(parts[1], attachment)
    ELSE PartText(parts[1], attachment) \o <<"\n">> \o JoinLines(Tail(parts), attachment)

TextForContext(userParts, attachment) == JoinLines(userParts, attachment)

INTERNAL_MARK == <<"\n\n---INTERNAL CONTEXT---\n">>

\* variant: filter(a => a !== initialAnswers[index]), by value
RECURSIVE FilterOthersByValue(_, _, _)
FilterOthersByValue(answers, index, k) ==
    IF k > Len(answers) THEN <<>>
    ELSE (IF answers[k] # answers[index] THEN <<answers[k]>> ELSE <<>>)
             \o FilterOthersByValue(answers, index, k + 1)

\* initialAnswers.filter((_, i) => i !== index), line 1246 (indexes from 1 here)
RECURSIVE FilterOthers(_, _, _)
FilterOthers(answers, index, k) ==
    IF k > Len(answers) THEN <<>>
    ELSE (IF k # index THEN <<answers[k]>> ELSE <<>>)
             \o FilterOthers(answers, index, k + 1)

OtherAnswers(answers, index) == FilterOthers(answers, index, 1)

\* otherAnswers[k] of line 1247: undefined past the end of the array
At(list, k) == IF k \in DOMAIN list THEN list[k] ELSE UNDEFINED

\* line 1247
RefinementContext(answers, index) ==
    LET otherAnswers == OtherAnswers(answers, index)
    IN  <<"My initial response was: ">> \o Str(answers[index])
        \o <<". The other agents responded with: 1. ">> \o Str(At(otherAnswers, 1))
        \o <<" 2. ">> \o Str(At(otherAnswers, 2))
        \o <<" 3. ">> \o Str(At(otherAnswers, 3))
        \o <<". Based on this context, critically re-evaluate.">>

\* line 1248
RefinementTurn(textForContext, answers, index) ==
    Content("user",
        <<TextPart(textForContext \o INTERNAL_MARK \o RefinementContext(answers, index))>>)

\* line 1257
SynthesizerContext(refinedAnswers) ==
    <<"Here are the four refined responses.">>
    \o <<"Refined Response 1:">> \o Str(At(refinedAnswers, 1))
    \o <<"Refined Response 2:">> \o Str(At(refinedAnswers, 2))
    \o <<"Refined Response 3:">> \o Str(At(refinedAnswers, 3))
    \o <<"Refined Response 4:">> \o Str(At(refinedAnswers, 4))

\* line 1258
SynthesizerTurn(textForContext, refinedAnswers) ==
    Content("user",
        <<TextPart(textForContext \o INTERNAL_MARK \o SynthesizerContext(refinedAnswers))>>)


\* -------------------------------------------------------------- state
VARIABLES
    chats,              \* useState<ChatSession[]>, line 758
    activeChatId,       \* line 759
    isLoading,          \* line 760
    loadingStatus,      \* line 761
    memory,             \* line 765
    model,              \* line 768
    apiKey,             \* line 769
    isGroundingEnabled, \* line 785
    turn,               \* the locals of the latest handleSubmit invocation
    calls,              \* the Gateway calls issued (ai.models.generateContent)
    settled,            \* the turn's agent calls in their order of completion
    clock,              \* Date.now(), the source of chat ids
    turnCount,          \* submissions so far
    probe               \* input and result of a prompt construction on its own

vars == <<chats, activeChatId, isLoading, loadingStatus, memory,
          model, apiKey, isGroundingEnabled, turn, calls, settled, clock,
          turnCount, probe>>

settings == <<memory, model, apiKey, isGroundingEnabled>>

sessions == <<chats, activeChatId, clock>>

\* ------------------------------------------------------- Gateway calls
\* One ai.models.generateContent(...) invocation and what came of it; apiKey
\* is the key of the client (new GoogleGenAI, lines 1078 and 1167) it goes
\* through.
Call(n, kind, idx, mdl, contents, tools, sys, key) ==
    [turn |-> n, kind |-> kind, idx |-> idx, model |-> mdl,
     contents |-> contents, tools |-> tools, systemInstruction |-> sys,
     apiKey |-> key, status |-> "pending", text |-> <<>>]

Settle(cs, c, status, text) ==
    [cs EXCEPT ![c] = [@ EXCEPT !.status = status, !.text = text]]

Pending(c, kind) ==
    /\ c \in DOMAIN calls
    /\ calls[c].kind = kind
    /\ calls[c].status = "pending"

CallsOf(cs, n, kind) == {c \in DOMAIN cs : cs[c].turn = n /\ cs[c].kind = kind}

\* variant: Promise.any, fulfilled with the first promise that is
PromiseAnyFulfilled(cs, n, kind) ==
    \E c \in CallsOf(cs, n, kind) : cs[c].status = "ok"

\* Promise.all (lines 1237, 1251) is fulfilled once every promise is.
PromiseAllFulfilled(cs, n, kind) ==
    \A c \in CallsOf(cs, n, kind) : cs[c].status = "ok"

\* variant: the results pushed to an array as they arrive.  settled holds
\* the calls completed before this one.
CompletionOrder(cs, n, kind) ==
    LET earlier == SelectSeq(settled, LAMBDA c : c \in CallsOf(cs, n, kind))
        last == {c \in CallsOf(cs, n, kind) :
                    cs[c].status = "ok" /\ \A k \in DOMAIN earlier : earlier[k] # c}
    IN  earlier \o <<CHOOSE c \in last : TRUE>>

ResultsAsTheyArrive(cs, n, kind) ==
    [i \in 1..AgentCount |-> cs[CompletionOrder(cs, n, kind)[i]].text]

\* ... with the results in the order of the promises, not of completion
PromiseAllResults(cs, n, kind) ==
    [i \in 1..AgentCount |->
        LET c == CHOOSE c \in CallsOf(cs, n, kind) : cs[c].idx = i
        IN  cs[c].text]

\* the calls a new submission keeps track of: those still in flight
RECURSIVE InFlight(_)
InFlight(cs) ==
    IF cs = <<>> THEN <<>>
    ELSE (IF Head(cs).status = "pending" THEN <<Head(cs)>> ELSE <<>>)
             \o InFlight(Tail(cs))

\* ------------------------------------------------------- chat sessions
ChatIndex(cs, id) == {k \in DOMAIN cs : cs[k].id = id}

HasChat(cs, id) == ChatIndex(cs, id) # {}

\* chats.find(c => c.id === id)?.messages ?? []
MessagesOf(cs, id) ==
    IF HasChat(cs, id) THEN cs[CHOOSE k \in ChatIndex(cs, id) : TRUE].messages
    ELSE <<>>

\* setChats(prev => prev.map(c => c.id === id ? {...c, messages: [...c.messages, msg]} : c))
AppendMessage(cs, id, msg) ==
    [k \in DOMAIN cs |->
        IF cs[k].id = id THEN [cs[k] EXCEPT !.messages = Append(@, msg)]
        ELSE cs[k]]

\* setChats(prev => prev.map(c => c.id === chatId ? { ...c, title } : c)), line 1082
SetTitle(cs, id, title) ==
    [k \in DOMAIN cs |->
        IF cs[k].id = id THEN [cs[k] EXCEPT !.title = title] ELSE cs[k]]

\* ---------------------------------------------------- handleSubmit locals
NoError == [isError |-> FALSE, message |-> <<>>]

IdleTurn ==
    [n |-> 0, pc |-> "idle", chatId |-> NoChat,
     userInput |-> <<>>, trimmedInput |-> <<>>, attachment |-> NoFile,
     messages |-> <<>>,
     model |-> TEXT_MODEL, isGroundingEnabled |-> FALSE, apiKey |-> <<>>,
     memory |-> <<>>,
     userPartsForApi |-> <<>>, mainChatHistory |-> <<>>, failedFiles |-> {},
     memoryPromise |-> "none", newMemory |-> <<>>,
     stage |-> "none", initialAnswers |-> <<>>, refinedAnswers |-> <<>>,
     finalResult |-> <<>>, error |-> NoError, outcome |-> "none"]


\* -------------------------------------------- handleSubmit, lines 1129-1293
\* variant: if (!userInput) return, the text tested as typed
RunMemoryUntrimmed(userInput) == userInput # <<>>

\* line 1218: the memory task goes on when the trimmed text is not empty
RunMemory(userInput) == Trim(userInput) # <<>>

\* variant: the search tool set in the configuration of the initial calls alone
AgentToolsInitialOnly(t, kind) == t.isGroundingEnabled /\ kind = "initial"

\* agentConfig, lines 1228-1231, spread into the config of every call of the
\* three stages (lines 1236, 1250, 1260)
AgentTools(t, kind) == t.isGroundingEnabled

\* lines 1186-1262, from the built history to the first suspension
Launch(t, history, cs, status) ==
    LET currentUserTurn == Content("user", t.userPartsForApi)
    IN
    IF t.model = IMAGE_MODEL
    THEN [turn |-> [t EXCEPT !.pc = "bypass", !.mainChatHistory = history],
          calls |-> Append(cs, Call(t.n, "bypass", 0, t.model,
                                    history \o <<currentUserTurn>>, FALSE, <<>>,
                                    t.apiKey)),
          loadingStatus |-> status]
    ELSE
      LET conversationForAgents == history \o <<currentUserTurn>>
          runMemory == RunMemory(t.userInput)
          memoryHistory == history \o <<Content("user", <<TextPart(t.userInput)>>)>>
          memoryCall == Call(t.n, "memory", 0, HELPER_MODEL, memoryHistory, FALSE,
                             <<"MEMORY_AGENT_SYSTEM_INSTRUCTION">>, t.apiKey)
          initialCalls ==
              [i \in 1..AgentCount |->
                  Call(t.n, "initial", i, t.model, conversationForAgents,
                       AgentTools(t, "initial"),
                       MemoryContext(t.memory) \o <<"INITIAL_SYSTEM_INSTRUCTION">>,
                       t.apiKey)]
      IN [turn |-> [t EXCEPT !.pc = "agents", !.mainChatHistory = history,
                             !.memoryPromise =
                                 IF runMemory THEN "pending" ELSE "fulfilled",
                             !.stage = "initial"],
          calls |-> cs \o (IF runMemory THEN <<memoryCall>> ELSE <<>>) \o initialCalls,
          loadingStatus |-> "Initializing agents..."]

\* lines 1182-1188 and 1204: after the attachment is converted; the history
\* build suspends only when a stored message holds a file to read
Proceed(t, cs, status) ==
    LET status1 == IF t.model = IMAGE_MODEL THEN "Nano banana" ELSE status
    IN  IF FileIndexes(t.messages) # {}
        THEN [turn |-> [t EXCEPT !.pc = "history"], calls |-> cs,
              loadingStatus |-> status1]
        ELSE Launch(t, BuildApiHistory(t.messages, {}), cs, status1)

\* line 1158
TitleText(trimmedInput, attachment) ==
    IF trimmedInput # <<>> THEN trimmedInput
    ELSE <<"Chat with ", (IF attachment # NoFile THEN attachment ELSE "attachment")>>

\* variant: generateTitle without the test of line 1075
TitleCallsUnchecked(n, key, chatId, titleText) ==
    <<Call(n, "title", chatId, HELPER_MODEL,
           <<Content("user", <<TextPart(<<"Generate a very short title: ">> \o titleText)>>)>>,
           FALSE, <<>>, key)>>

\* generateTitle up to its await, lines 1072-1080: no call without a key
TitleCalls(n, key, chatId, titleText) ==
    IF key # <<>>
    THEN <<Call(n, "title", chatId, HELPER_MODEL,
                <<Content("user", <<TextPart(<<"Generate a very short title: ">> \o titleText)>>)>>,
                FALSE, <<>>, key)>>
    ELSE <<>>

\* variant: a form whose controls are never disabled
SubmitNeverDisabled == FALSE

\* the form's controls are disabled while a turn is pending (lines 1425, 1472).
\* Their second condition, an empty key, is not applied: handleSubmit checks
\* the key itself (line 1164) and that check is what is modelled.
SubmitDisabled == isLoading

Submit(userInput, attachment) ==
    /\ ~SubmitDisabled
    /\ activeChatId # NoChat
    /\ LET trimmedInput == Trim(userInput)
           n == turnCount + 1
           key == FinalApiKey(apiKey)
           messages == MessagesOf(chats, activeChatId)
           isFirstMessage == HasChat(chats, activeChatId) /\ Len(messages) = 0
           chats1 == AppendMessage(chats, activeChatId,
                                   UserMessage(trimmedInput, attachment))
           calls1 == InFlight(calls)
                       \o (IF isFirstMessage
                           THEN TitleCalls(n, key, activeChatId,
                                           TitleText(trimmedInput, attachment))
                           ELSE <<>>)
           t0 == [IdleTurn EXCEPT !.n = n, !.chatId = activeChatId,
                      !.userInput = userInput, !.trimmedInput = trimmedInput,
                      !.attachment = attachment, !.messages = messages,
                      !.model = model, !.isGroundingEnabled = isGroundingEnabled,
                      !.apiKey = key, !.memory = memory]
       IN
       /\ ~(trimmedInput = <<>> /\ attachment = NoFile)
       /\ turnCount' = n
       /\ settled' = <<>>
       /\ IF key = <<>>
          THEN \* throw of line 1165, caught at line 1275, within the same call
               /\ chats' = AppendMessage(chats1, activeChatId, ErrorMessage(NoKeyError))
               /\ isLoading' = FALSE
               /\ turn' = [t0 EXCEPT !.pc = "done", !.error = NoKeyError,
                                     !.outcome = "error"]
               /\ calls' = calls1
               /\ UNCHANGED loadingStatus
          ELSE IF attachment # NoFile
          THEN \* await fileToGenerativePart(attachment), line 1173
               /\ chats' = chats1
               /\ isLoading' = TRUE
               /\ turn' = [t0 EXCEPT !.pc = "convert"]
               /\ calls' = calls1
               /\ UNCHANGED loadingStatus
          ELSE LET t1 == [t0 EXCEPT !.userPartsForApi =
                                        UserPartsForApi(trimmedInput, <<>>)]
                   r == Proceed(t1, calls1, loadingStatus)
               IN  /\ chats' = chats1
                   /\ isLoading' = TRUE
                   /\ turn' = r.turn
                   /\ calls' = r.calls
                   /\ loadingStatus' = r.loadingStatus
    /\ UNCHANGED <<activeChatId, clock, settings, probe>>

\* variant: the id read from the state when the outcome is applied
OutcomeChatCurrent(t) == activeChatId

\* the c.id === activeChatId of lines 1177, 1201, 1272 and 1289: activeChatId
\* of the render in which the turn was submitted
OutcomeChat(t) == t.chatId

\* FileReader onload for the current attachment, lines 1091-1094 and 1173
FileConverted ==
    /\ turn.pc = "convert"
    /\ LET t1 == [turn EXCEPT !.userPartsForApi =
                      UserPartsForApi(turn.trimmedInput,
                                      <<InlinePart(turn.attachment)>>)]
           r == Proceed(t1, calls, loadingStatus)
       IN  /\ turn' = r.turn
           /\ calls' = r.calls
           /\ loadingStatus' = r.loadingStatus
    /\ UNCHANGED <<sessions, settings, isLoading, settled, turnCount, probe>>

\* FileReader onerror for the current attachment, lines 1095 and 1174-1180
FileConversionFailed ==
    /\ turn.pc = "convert"
    /\ chats' = AppendMessage(chats, OutcomeChat(turn),
                              ModelMessage(<<TextPart(APOLOGY_TEXT)>>, FALSE))
    /\ isLoading' = FALSE
    /\ turn' = [turn EXCEPT !.pc = "done", !.outcome = "apology"]
    /\ UNCHANGED <<activeChatId, clock, settings, loadingStatus,
                   calls, settled, turnCount, probe>>

\* variant: const content = { role: msg.role, parts: msg.parts }, the stored
\* array itself, to which unshift then adds the file part
StoredMessageAliased(msg, fileRead) ==
    IF HasFile(msg) /\ fileRead
    THEN [msg EXCEPT !.parts = <<InlinePart(msg.file)>> \o @]
    ELSE msg

\* line 1115: parts: [...msg.parts] is a copy, and unshift (line 1119) works
\* on the copy; the stored message is what it was
StoredMessage(msg, fileRead) == msg

\* the chat's messages after buildApiHistory has gone through those the
\* invocation captured (activeChat.messages, the objects the state holds)
StoredAfterBuild(cs, t, failed) ==
    [k \in DOMAIN cs |->
        IF cs[k].id = t.chatId
        THEN [cs[k] EXCEPT !.messages =
                 [j \in DOMAIN @ |->
                     IF j <= Len(t.messages)
                     THEN StoredMessage(@[j], j \notin failed)
                     ELSE @[j]]]
        ELSE cs[k]]

\* the file reads of buildApiHistory have all ended, lines 1188 and 1204
HistoryBuilt(failed) ==
    /\ turn.pc = "history"
    /\ failed \subseteq FileIndexes(turn.messages)
    /\ chats' = StoredAfterBuild(chats, turn, failed)
    /\ LET r == Launch([turn EXCEPT !.failedFiles = failed],
                       BuildApiHistory(turn.messages, failed), calls, loadingStatus)
       IN  /\ turn' = r.turn
           /\ calls' = r.calls
           /\ loadingStatus' = r.loadingStatus
    /\ UNCHANGED <<activeChatId, clock, settings, isLoading, settled, turnCount,
                   probe>>


\* ------------------------------------------------ the end of a turn
\* variant: one newMemory and one promise chain shared by all invocations
LiveInAnyTurn(c, pc) == turn.pc = pc

\* A call's continuation still exists: it belongs to the pending invocation.
Live(c, pc) == calls[c].turn = turn.n /\ turn.pc = pc

\* lines 1266-1268: the fact is new to the memory this invocation captured
AcceptsMemory(t) == t.newMemory # <<>> /\ ~SeqIncludes(t.memory, t.newMemory)

\* variant: await multiAgentPromise alone
JoinReadyPipelineOnly(t) == t.stage = "fulfilled"

\* lines 1264-1272 and 1291, once both promises of line 1264 are fulfilled
JoinReady(t) == t.stage = "fulfilled" /\ t.memoryPromise = "fulfilled"

FinalMessage(t) == ModelMessage(<<TextPart(t.finalResult)>>, t.newMemory # <<>>)

Join(t) ==
    /\ memory' = IF AcceptsMemory(t) THEN Append(memory, t.newMemory) ELSE memory
    /\ chats' = AppendMessage(chats, OutcomeChat(t), FinalMessage(t))
    /\ isLoading' = FALSE
    /\ turn' = [t EXCEPT !.pc = "done", !.outcome = "final"]

\* variant: a catch block that logs the error and appends nothing
CatchWithoutMessage(t, error) ==
    /\ chats' = chats
    /\ isLoading' = FALSE
    /\ turn' = [t EXCEPT !.pc = "done", !.error = error, !.outcome = "error",
                         !.stage = IF @ = "none" THEN @ ELSE "rejected"]
    /\ UNCHANGED memory

\* variant: the fact applied in the finally block, on every path
CatchKeepsFact(t, error) ==
    /\ chats' = AppendMessage(chats, OutcomeChat(t), ErrorMessage(error))
    /\ isLoading' = FALSE
    /\ turn' = [t EXCEPT !.pc = "done", !.error = error, !.outcome = "error",
                         !.stage = IF @ = "none" THEN @ ELSE "rejected"]
    /\ memory' = IF AcceptsMemory(t) THEN Append(memory, t.newMemory) ELSE memory

\* variant: setIsLoading(false) as the last statement of the try block, no
\* finally
CatchWithoutFinally(t, error) ==
    /\ chats' = AppendMessage(chats, OutcomeChat(t), ErrorMessage(error))
    /\ isLoading' = isLoading
    /\ turn' = [t EXCEPT !.pc = "done", !.error = error, !.outcome = "error",
                         !.stage = IF @ = "none" THEN @ ELSE "rejected"]
    /\ UNCHANGED memory

\* lines 1275-1292: the catch block and finally
Catch(t, error) ==
    /\ chats' = AppendMessage(chats, OutcomeChat(t), ErrorMessage(error))
    /\ isLoading' = FALSE
    /\ turn' = [t EXCEPT !.pc = "done", !.error = error, !.outcome = "error",
                         !.stage = IF @ = "none" THEN @ ELSE "rejected"]
    /\ UNCHANGED memory

\* ------------------------------------- the multi-agent promise, 1227-1262
\* an initial call returns; with the last one the function runs on to the
\* delay of line 1242
InitialReturn(c, text, track) ==
    /\ Pending(c, "initial")
    /\ Live(c, "agents")
    /\ LET cs == Settle(calls, c, "ok", text)
       IN  /\ calls' = cs
           /\ settled' = IF track THEN Append(settled, c) ELSE settled
           /\ turn' = IF PromiseAllFulfilled(cs, turn.n, "initial")
                      THEN [turn EXCEPT !.stage = "delay1",
                               !.initialAnswers =
                                   PromiseAllResults(cs, turn.n, "initial")]
                      ELSE turn
    /\ UNCHANGED <<sessions, settings, isLoading, loadingStatus, turnCount, probe>>

\* line 1240
TurnContext(t) == TextForContext(t.userPartsForApi, t.attachment)

\* variant: the model selected when the call is issued
StageModelCurrent(t) == model

\* model of lines 1249 and 1260: the constant of the submitting render
StageModel(t) == t.model

\* variant: the synthetic turn added to the conversation of the initial calls
StageContentsAfterUserTurn(t, syntheticTurn) ==
    t.mainChatHistory \o <<Content("user", t.userPartsForApi)>> \o <<syntheticTurn>>

\* contents: [...mainChatHistory, refinementTurn] and
\* [...mainChatHistory, synthesizerTurn], lines 1249 and 1260
StageContents(t, syntheticTurn) == t.mainChatHistory \o <<syntheticTurn>>

\* the timer of line 1242 fires: lines 1244-1251
Delay1 ==
    /\ turn.pc = "agents"
    /\ turn.stage = "delay1"
    /\ loadingStatus' = "Refining answers..."
    /\ calls' = calls \o
          [i \in 1..Len(turn.initialAnswers) |->
              Call(turn.n, "refinement", i, StageModel(turn),
                   StageContents(turn,
                       RefinementTurn(TurnContext(turn), turn.initialAnswers, i)),
                   AgentTools(turn, "refinement"),
                   MemoryContext(turn.memory) \o <<"REFINEMENT_SYSTEM_INSTRUCTION">>,
                   turn.apiKey)]
    /\ turn' = [turn EXCEPT !.stage = "refinement"]
    /\ UNCHANGED <<sessions, settings, isLoading, settled, turnCount, probe>>

\* a refinement call returns; with the last one: lines 1252-1254
RefinementReturn(c, text, track) ==
    /\ Pending(c, "refinement")
    /\ Live(c, "agents")
    /\ LET cs == Settle(calls, c, "ok", text)
       IN  /\ calls' = cs
           /\ settled' = IF track THEN Append(settled, c) ELSE settled
           /\ turn' = IF PromiseAllFulfilled(cs, turn.n, "refinement")
                      THEN [turn EXCEPT !.stage = "delay2",
                               !.refinedAnswers =
                                   PromiseAllResults(cs, turn.n, "refinement")]
                      ELSE turn
    /\ UNCHANGED <<sessions, settings, isLoading, loadingStatus, turnCount, probe>>

\* the timer of line 1254 fires: lines 1256-1260
Delay2 ==
    /\ turn.pc = "agents"
    /\ turn.stage = "delay2"
    /\ loadingStatus' = "Synthesizing final response..."
    /\ calls' = Append(calls,
          Call(turn.n, "synthesis", 0, StageModel(turn),
               StageContents(turn,
                   SynthesizerTurn(TurnContext(turn), turn.refinedAnswers)),
               AgentTools(turn, "synthesis"),
               MemoryContext(turn.memory) \o <<"SYNTHESIZER_SYSTEM_INSTRUCTION">>,
               turn.apiKey))
    /\ turn' = [turn EXCEPT !.stage = "synthesis"]
    /\ UNCHANGED <<sessions, settings, isLoading, settled, turnCount, probe>>

\* the synthesis call returns, lines 1260-1261; line 1264 goes on when the
\* memory promise is fulfilled too
SynthesisReturn(c, text) ==
    /\ Pending(c, "synthesis")
    /\ Live(c, "agents")
    /\ calls' = Settle(calls, c, "ok", text)
    /\ LET t1 == [turn EXCEPT !.stage = "fulfilled", !.finalResult = text]
       IN  IF JoinReady(t1) THEN Join(t1)
           ELSE /\ turn' = t1
                /\ UNCHANGED <<chats, isLoading, memory>>
    /\ UNCHANGED <<activeChatId, clock, model, apiKey,
                   isGroundingEnabled, loadingStatus, settled, turnCount, probe>>

\* variant: a failed call is issued again
AgentCallRetried(c, error) ==
    /\ c \in DOMAIN calls
    /\ calls[c].kind \in {"initial", "refinement", "synthesis"}
    /\ calls[c].status = "pending"
    /\ Live(c, "agents")
    /\ Cardinality(CallsOf(calls, turn.n, calls[c].kind)) <= AgentCount
    /\ calls' = Append(Settle(calls, c, "failed", <<>>),
                       [calls[c] EXCEPT !.status = "pending"])
    /\ UNCHANGED <<sessions, settings, isLoading, loadingStatus, turn, settled,
                   turnCount, probe>>

\* variant: Promise.allSettled, a failed call rejects nothing
AgentCallFailureIgnored(c, error) ==
    /\ c \in DOMAIN calls
    /\ calls[c].kind \in {"initial", "refinement", "synthesis"}
    /\ calls[c].status = "pending"
    /\ Live(c, "agents")
    /\ calls' = Settle(calls, c, "failed", <<>>)
    /\ UNCHANGED <<sessions, settings, isLoading, loadingStatus, turn, settled,
                   turnCount, probe>>

\* a call of the pipeline fails: Promise.all (or the await of line 1260)
\* rejects, multiAgentPromise rejects, line 1264 throws into the catch block
AgentCallFailed(c, error) ==
    /\ c \in DOMAIN calls
    /\ calls[c].kind \in {"initial", "refinement", "synthesis"}
    /\ calls[c].status = "pending"
    /\ Live(c, "agents")
    /\ calls' = Settle(calls, c, "failed", <<>>)
    /\ Catch(turn, error)
    /\ UNCHANGED <<activeChatId, clock, model, apiKey,
                   isGroundingEnabled, loadingStatus, settled, turnCount, probe>>

\* ------------------------------------------ the memory promise, 1217-1225
\* lines 1222-1223
ExtractedMemory(text, previous) ==
    LET memoryText == Trim(text)
    IN  IF memoryText # <<>> /\ memoryText # <<"NO_UPDATE">> THEN memoryText
        ELSE previous

MemoryReturn(c, text) ==
    /\ Pending(c, "memory")
    /\ Live(c, "agents")
    /\ calls' = Settle(calls, c, "ok", text)
    /\ LET t1 == [turn EXCEPT !.memoryPromise = "fulfilled",
                              !.newMemory = ExtractedMemory(text, @)]
       IN  IF JoinReady(t1) THEN Join(t1)
           ELSE /\ turn' = t1
                /\ UNCHANGED <<chats, isLoading, memory>>
    /\ UNCHANGED <<activeChatId, clock, model, apiKey,
                   isGroundingEnabled, loadingStatus, settled, turnCount, probe>>

\* variant: the memory promise without its try/catch
MemoryFailedRejects(c, error) ==
    /\ Pending(c, "memory")
    /\ Live(c, "agents")
    /\ calls' = Settle(calls, c, "failed", <<>>)
    /\ Catch(turn, error)
    /\ UNCHANGED <<activeChatId, clock, model, apiKey,
                   isGroundingEnabled, loadingStatus, settled, turnCount, probe>>

\* the catch of line 1224
MemoryFailed(c, error) ==
    /\ Pending(c, "memory")
    /\ Live(c, "agents")
    /\ calls' = Settle(calls, c, "failed", <<>>)
    /\ LET t1 == [turn EXCEPT !.memoryPromise = "fulfilled"]
       IN  IF JoinReady(t1) THEN Join(t1)
           ELSE /\ turn' = t1
                /\ UNCHANGED <<chats, isLoading, memory>>
    /\ UNCHANGED <<activeChatId, clock, model, apiKey,
                   isGroundingEnabled, loadingStatus, settled, turnCount, probe>>

\* ------------------------------------------- calls of an ended turn
\* The invocation a call belongs to has ended (its catch block ran): what the
\* call returns goes to a promise nobody awaits (the initial, refinement and
\* synthesis calls) or to newMemory, which is read no more (the memory call).
Discarded(c) ==
    /\ c \in DOMAIN calls
    /\ calls[c].kind \in {"initial", "refinement", "synthesis", "memory"}
    /\ calls[c].status = "pending"
    /\ ~Live(c, "agents")

\* Such returns and failures commute and change nothing but the call itself:
\* they are taken in the order of issue.
DiscardedCallSettles(c) ==
    /\ Discarded(c)
    /\ \A d \in DOMAIN calls : Discarded(d) => c <= d
    /\ calls' = Settle(calls, c, "discarded", <<>>)
    /\ UNCHANGED <<sessions, settings, isLoading, loadingStatus, turn, settled,
                   turnCount, probe>>

\* ------------------------------------------------ bypass path, 1186-1202
\* variant: the text segments of the response alone
BypassPartsTextOnly(parts) ==
    IF parts = UNDEFINED THEN <<TextPart(FALLBACK_TEXT)>>
    ELSE SelectSeq(parts, LAMBDA part : part.type = "text")

\* response.candidates?.[0]?.content?.parts ?? [{text: "Could not get a response."}]
BypassParts(parts) ==
    IF parts = UNDEFINED THEN <<TextPart(FALLBACK_TEXT)>> ELSE parts

BypassReturn(c, parts) ==
    /\ Pending(c, "bypass")
    /\ Live(c, "bypass")
    /\ calls' = Settle(calls, c, "ok", parts)
    /\ chats' = AppendMessage(chats, OutcomeChat(turn),
                              ModelMessage(BypassParts(parts), FALSE))
    /\ isLoading' = FALSE
    /\ turn' = [turn EXCEPT !.pc = "done", !.outcome = "bypass"]
    /\ UNCHANGED <<activeChatId, clock, settings, loadingStatus,
                   settled, turnCount, probe>>

BypassFailed(c, error) ==
    /\ Pending(c, "bypass")
    /\ Live(c, "bypass")
    /\ calls' = Settle(calls, c, "failed", <<>>)
    /\ Catch(turn, error)
    /\ UNCHANGED <<activeChatId, clock, model, apiKey,
                   isGroundingEnabled, loadingStatus, settled, turnCount, probe>>

\* -------------------------------------------- generateTitle, 1080-1085
\* result.text.trim().replace(/"/g, '')
RECURSIVE RemoveQuotes(_)
RemoveQuotes(s) ==
    IF s = <<>> THEN <<>>
    ELSE (IF Head(s) = "\"" THEN <<>> ELSE <<Head(s)>>) \o RemoveQuotes(Tail(s))

TitleReturn(c, text) ==
    /\ Pending(c, "title")
    /\ calls' = Settle(calls, c, "ok", text)
    /\ chats' = SetTitle(chats, calls[c].idx, RemoveQuotes(Trim(text)))
    /\ UNCHANGED <<activeChatId, clock, settings, isLoading,
                   loadingStatus, turn, settled, turnCount, probe>>

TitleFailed(c, error) ==
    /\ Pending(c, "title")
    /\ calls' = Settle(calls, c, "failed", <<>>)
    /\ UNCHANGED <<sessions, settings, isLoading, loadingStatus, turn, settled,
                   turnCount, probe>>


\* ------------------------------------------ session handlers, 988-1036
\* chats.find(c => c.messages.length === 0)
EmptyChats(cs) == {k \in DOMAIN cs : Len(cs[k].messages) = 0}

FirstEmptyChat(cs) == cs[CHOOSE k \in EmptyChats(cs) : \A j \in EmptyChats(cs) : k <= j]

\* chats.filter(c => c.id !== id)
RECURSIVE WithoutChat(_, _)
WithoutChat(cs, id) ==
    IF cs = <<>> THEN <<>>
    ELSE (IF Head(cs).id # id THEN <<Head(cs)>> ELSE <<>>) \o WithoutChat(Tail(cs), id)

\* handleNewChat, lines 988-1007
HandleNewChat ==
    /\ IF EmptyChats(chats) # {}
       THEN /\ activeChatId # FirstEmptyChat(chats).id
            /\ activeChatId' = FirstEmptyChat(chats).id
            /\ UNCHANGED <<chats, clock>>
       ELSE /\ clock <= MaxChats
            /\ chats' = <<NewChat(clock)>> \o chats
            /\ activeChatId' = clock
            /\ clock' = clock + 1
    /\ UNCHANGED <<settings, isLoading, loadingStatus, turn, calls,
                   settled, turnCount, probe>>

\* handleSelectChat, line 1009
HandleSelectChat(id) ==
    /\ HasChat(chats, id)
    /\ activeChatId # id
    /\ activeChatId' = id
    /\ UNCHANGED <<chats, clock, settings, isLoading, loadingStatus,
                   turn, calls, settled, turnCount, probe>>

\* requestDeleteChat and, once confirmed, handleDeleteChat, lines 1011-1036.
\* chatToDelete is read by handleDeleteChat and the dialog alone, so the two
\* clicks are one step here; a dialog closed without confirming changes nothing.
HandleDeleteChat(chatToDelete) ==
    /\ HasChat(chats, chatToDelete)
    /\ LET remainingChats == WithoutChat(chats, chatToDelete)
       IN  IF Len(remainingChats) = 0 \/ activeChatId = chatToDelete
           THEN /\ clock <= MaxChats
                /\ chats' = <<NewChat(clock)>> \o remainingChats
                /\ activeChatId' = clock
                /\ clock' = clock + 1
           ELSE /\ chats' = remainingChats
                /\ UNCHANGED <<activeChatId, clock>>
    /\ UNCHANGED <<settings, isLoading, loadingStatus, turn, calls, settled,
                   turnCount, probe>>

\* ------------------------------------------------ settings, 128-176, 794-798
\* MemoryModal.handleSave, line 174: the lines of the text area, trimmed,
\* the empty ones dropped
ParseMemory(lines) ==
    SelectSeq([k \in DOMAIN lines |-> Trim(lines[k])], LAMBDA m : m # <<>>)

\* Save in the settings dialog: handleSave and onSave, lines 173-176 and
\* 1507-1511.  The dialog opens at any time, also while a turn is pending.
SaveSettings(editedMemory, editedApiKey) ==
    /\ memory' = ParseMemory(editedMemory)
    /\ apiKey' = editedApiKey
    /\ <<memory', apiKey'>> # <<memory, apiKey>>
    /\ UNCHANGED <<sessions, model, isGroundingEnabled, isLoading, loadingStatus,
                   turn, calls, settled, turnCount, probe>>

\* the model select, line 1368, and the effect of lines 794-798 that runs
\* with the render it causes
SelectModel(m) ==
    /\ m # model
    /\ model' = m
    /\ isGroundingEnabled' = IF m = IMAGE_MODEL THEN FALSE ELSE isGroundingEnabled
    /\ UNCHANGED <<sessions, memory, apiKey, isLoading, loadingStatus,
                   turn, calls, settled, turnCount, probe>>

\* the grounding button, lines 1444-1445
ToggleGrounding ==
    /\ model # IMAGE_MODEL
    /\ isGroundingEnabled' = ~isGroundingEnabled
    /\ UNCHANGED <<sessions, memory, model, apiKey, isLoading, loadingStatus,
                   turn, calls, settled, turnCount, probe>>

\* ------------------------------------------------------- the Gateway
\* What a call returns is the Gateway's choice.  Each agent call answers with
\* a text of its own, so that answers can be told apart.
AgentTexts ==
    [initial |-> <<"I1", "I2", "I3", "I4">>,
     refinement |-> <<"R1", "R2", "R3", "R4">>]

AnswerOf(call) == <<AgentTexts[call.kind][call.idx]>>

SynthesisTexts == {<<"S">>}

TitleTexts == {<<" ", "\"", "Title", "\"">>}

BypassResults == {<<TextPart(<<"B">>), InlinePart("image")>>, UNDEFINED}

\* ------------------------------------------------------ specification
\* A session in which one turn with an attachment has been answered: the
\* stored user message holds its File (line 1142).
AnsweredChat(id) ==
    [id |-> id, title |-> <<"Title">>,
     messages |-> <<UserMessage(<<"hi">>, "f1"),
                    ModelMessage(<<TextPart(<<"S">>)>>, FALSE)>>]

\* no prompt is under construction
NoProbe == [answers |-> <<>>, index |-> 0, turn |-> Content("user", <<>>)]

\* loadingStatus is set in the course of a turn and by nothing else (lines
\* 1187, 1233, 1244, 1256): after a turn the pipeline answered it is still
\* the status of that turn's last stage
LastStatus(cs) ==
    IF \E k \in DOMAIN cs : cs[k].messages # <<>>
    THEN "Synthesizing final response..."
    ELSE ""

InitialChats == {<<NewChat(1)>>, <<AnsweredChat(1)>>}

\* After the mount effect (lines 851-900) with an empty chat history: one
\* new chat, and the settings as they were saved; or later in that session,
\* between two turns.
Init ==
    /\ chats \in InitialChats
    /\ activeChatId = 1
    /\ clock = 2
    /\ isLoading = FALSE
    /\ loadingStatus = LastStatus(chats)
    /\ memory \in InitialMemories
    /\ model \in {TEXT_MODEL, IMAGE_MODEL}
    /\ apiKey \in ApiKeys
    /\ isGroundingEnabled = FALSE
    /\ turn = IdleTurn
    /\ calls = <<>>
    /\ settled = <<>>
    /\ turnCount = 0
    /\ probe = NoProbe

\* the steps of a turn up to the Gateway's answers
Submissions ==
    \/ \E userInput \in UserInputs, attachment \in Files \cup {NoFile} :
          turnCount < MaxTurns /\ Submit(userInput, attachment)
    \/ FileConverted
    \/ FileConversionFailed
    \/ \E failed \in SUBSET FileIndexes(turn.messages) : HistoryBuilt(failed)
    \/ Delay1
    \/ Delay2

\* the Gateway's answers other than those of the initial and refinement calls
Answers ==
    \/ \E c \in DOMAIN calls, text \in SynthesisTexts : SynthesisReturn(c, text)
    \/ \E c \in DOMAIN calls, error \in GatewayErrors : AgentCallFailed(c, error)
    \/ \E c \in DOMAIN calls, text \in MemoryTexts : MemoryReturn(c, text)
    \/ \E c \in DOMAIN calls, error \in GatewayErrors : MemoryFailed(c, error)
    \/ \E c \in DOMAIN calls, parts \in BypassResults : BypassReturn(c, parts)
    \/ \E c \in DOMAIN calls, error \in GatewayErrors : BypassFailed(c, error)
    \/ \E c \in DOMAIN calls, text \in TitleTexts : TitleReturn(c, text)
    \/ \E c \in DOMAIN calls, error \in GatewayErrors : TitleFailed(c, error)

\* the calls of a stage return in any order
StageReturns(track) ==
    \/ \E c \in DOMAIN calls : InitialReturn(c, AnswerOf(calls[c]), track)
    \/ \E c \in DOMAIN calls : RefinementReturn(c, AnswerOf(calls[c]), track)

\* the calls of ended turns return or fail
DiscardSteps == \E c \in DOMAIN calls : DiscardedCallSettles(c)

SessionSteps ==
    \/ HandleNewChat
    \/ \E id \in 1..MaxChats : HandleSelectChat(id)
    \/ \E id \in 1..MaxChats : HandleDeleteChat(id)

\* Spec: one session, every interleaving of the Gateway's answers.
Next == Submissions \/ Answers \/ StageReturns(FALSE) \/ DiscardSteps

Spec == Init /\ [][Next]_vars

\* SessionSpec: the session handlers run between the steps of a turn.  The
\* calls of a stage that return do so in the order of issue (a call may fail
\* at any time), which leaves every outcome of a turn reachable.
InIssueOrder(c) ==
    \A d \in DOMAIN calls :
        (d < c /\ calls[d].turn = calls[c].turn /\ calls[d].kind = calls[c].kind)
            => calls[d].status = "ok"

OrderedStageReturns ==
    \/ \E c \in DOMAIN calls :
          InIssueOrder(c) /\ InitialReturn(c, AnswerOf(calls[c]), FALSE)
    \/ \E c \in DOMAIN calls :
          InIssueOrder(c) /\ RefinementReturn(c, AnswerOf(calls[c]), FALSE)

SessionNext == Submissions \/ Answers \/ OrderedStageReturns \/ SessionSteps

SessionSpec == Init /\ [][SessionNext]_vars

\* LiveSpec: timers fire and file reads end; the Gateway owes no answer.
LiveSpec ==
    /\ Spec
    /\ WF_vars(Delay1)
    /\ WF_vars(Delay2)
    /\ WF_vars(FileConverted \/ FileConversionFailed)
    /\ WF_vars(\E failed \in SUBSET FileIndexes(turn.messages) : HistoryBuilt(failed))

\* ResolveSpec: timers fire, file reads end, and the Gateway settles every
\* call it was sent: it answers it or fails it.
ResolveSpec ==
    /\ LiveSpec
    /\ WF_vars(Answers \/ StageReturns(FALSE) \/ DiscardSteps)

\* SettingsSpec: one turn of typed text in a new chat, while the user changes
\* the settings at any time.  The Gateway answers every call.
EditedMemories == {<<>>, << <<" ", "fact1">>, <<" ">> >>}

SettingsInit ==
    /\ Init
    /\ chats = <<NewChat(1)>>
    /\ memory = <<>>
    /\ model = TEXT_MODEL
    /\ apiKey # <<>>

SettingsSteps ==
    \/ \E editedMemory \in EditedMemories, editedApiKey \in ApiKeys :
          SaveSettings(editedMemory, editedApiKey)
    \/ \E m \in {TEXT_MODEL, IMAGE_MODEL} : SelectModel(m)
    \/ ToggleGrounding

SettingsNext ==
    \/ turnCount < MaxTurns /\ Submit(<<" ", "hi">>, NoFile)
    \/ OrderedStageReturns
    \/ Delay1
    \/ Delay2
    \/ \E c \in DOMAIN calls, text \in SynthesisTexts : SynthesisReturn(c, text)
    \/ \E c \in DOMAIN calls, text \in MemoryTexts : MemoryReturn(c, text)
    \/ \E c \in DOMAIN calls, parts \in BypassResults : BypassReturn(c, parts)
    \/ \E c \in DOMAIN calls, text \in TitleTexts : TitleReturn(c, text)
    \/ SettingsSteps

SettingsSpec == SettingsInit /\ [][SettingsNext]_vars

\* MissingTextSpec: one turn of typed text in a new chat; a response of the
\* Gateway may come without text (response.text undefined) or, for the
\* synthesis call, with an empty one.
MissingTextInit ==
    /\ Init
    /\ chats = <<NewChat(1)>>
    /\ memory = <<>>
    /\ apiKey # <<>>

StageTexts(c) == {AnswerOf(calls[c]), UNDEFINED}

MissingTextNext ==
    \/ turnCount < MaxTurns /\ Submit(<<" ", "hi">>, NoFile)
    \/ \E c \in DOMAIN calls :
          /\ Pending(c, "initial") /\ InIssueOrder(c)
          /\ \E text \in StageTexts(c) : InitialReturn(c, text, FALSE)
    \/ \E c \in DOMAIN calls :
          /\ Pending(c, "refinement") /\ InIssueOrder(c)
          /\ \E text \in StageTexts(c) : RefinementReturn(c, text, FALSE)
    \/ Delay1
    \/ Delay2
    \/ \E c \in DOMAIN calls, text \in SynthesisTexts \cup {<<>>, UNDEFINED} :
          SynthesisReturn(c, text)
    \/ \E c \in DOMAIN calls, text \in MemoryTexts : MemoryReturn(c, text)
    \/ \E c \in DOMAIN calls, parts \in BypassResults : BypassReturn(c, parts)

MissingTextSpec == MissingTextInit /\ [][MissingTextNext]_vars

\* ResubmitSpec: two submissions, in the same session or in another one; the
\* Gateway answers, or fails a call, and the user may change session while a
\* turn is pending.  The calls an ended turn left in flight stay in flight.
ResubmitInit ==
    /\ Init
    /\ chats = <<NewChat(1)>>
    /\ memory = <<>>
    /\ apiKey # <<>>

ResubmitNext ==
    \/ \E attachment \in Files \cup {NoFile} :
          turnCount < MaxResubmitTurns /\ Submit(<<" ", "hi">>, attachment)
    \/ FileConverted
    \/ FileConversionFailed
    \/ HistoryBuilt({})
    \/ OrderedStageReturns
    \/ Delay1
    \/ Delay2
    \/ \E c \in DOMAIN calls, text \in SynthesisTexts : SynthesisReturn(c, text)
    \/ \E c \in DOMAIN calls : AgentCallFailed(c, ErrorOf(<<"fetch failed">>))
    \/ \E c \in DOMAIN calls : MemoryReturn(c, <<"NO_UPDATE">>)
    \/ \E c \in DOMAIN calls, parts \in BypassResults : BypassReturn(c, parts)
    \/ HandleNewChat
    \/ \E id \in 1..MaxChats : HandleSelectChat(id)

ResubmitSpec == ResubmitInit /\ [][ResubmitNext]_vars

\* HistorySpec: a turn in a session that holds two answered messages with
\* files; each file read of the history build ends well or fails.
TwoFilesChat(id) ==
    [id |-> id, title |-> <<"Title">>,
     messages |-> <<UserMessage(<<"hi">>, "f1"),
                    ModelMessage(<<TextPart(<<"S">>)>>, FALSE),
                    UserMessage(<<"more">>, "f1"),
                    ModelMessage(<<TextPart(<<"S">>)>>, FALSE)>>]

HistoryInit ==
    /\ chats = <<TwoFilesChat(1)>>
    /\ activeChatId = 1
    /\ clock = 2
    /\ isLoading = FALSE
    /\ loadingStatus = LastStatus(chats)
    /\ memory = <<>>
    /\ model \in {TEXT_MODEL, IMAGE_MODEL}
    /\ apiKey = <<"key">>
    /\ isGroundingEnabled = FALSE
    /\ turn = IdleTurn
    /\ calls = <<>>
    /\ settled = <<>>
    /\ turnCount = 0
    /\ probe = NoProbe

HistoryNext ==
    \/ \E attachment \in Files \cup {NoFile} :
          turnCount < MaxTurns /\ Submit(<<" ", "hi">>, attachment)
    \/ FileConverted
    \/ \E failed \in SUBSET FileIndexes(turn.messages) : HistoryBuilt(failed)
    \/ OrderedStageReturns
    \/ Delay1
    \/ Delay2
    \/ \E c \in DOMAIN calls, text \in SynthesisTexts : SynthesisReturn(c, text)
    \/ \E c \in DOMAIN calls : AgentCallFailed(c, ErrorOf(<<"fetch failed">>))
    \/ \E c \in DOMAIN calls, text \in MemoryTexts : MemoryReturn(c, text)
    \/ \E c \in DOMAIN calls, parts \in BypassResults : BypassReturn(c, parts)

HistorySpec == HistoryInit /\ [][HistoryNext]_vars

\* DiscardSpec: two turns of typed text on the text model; calls fail, and
\* the calls a failed turn left in flight return later, also during the
\* next turn.
DiscardInit ==
    /\ ResubmitInit
    /\ model = TEXT_MODEL

DiscardNext ==
    \/ turnCount < MaxResubmitTurns /\ Submit(<<" ", "hi">>, NoFile)
    \/ OrderedStageReturns
    \/ Delay1
    \/ Delay2
    \/ \E c \in DOMAIN calls, text \in SynthesisTexts : SynthesisReturn(c, text)
    \/ \E c \in DOMAIN calls : AgentCallFailed(c, ErrorOf(<<"fetch failed">>))
    \/ \E c \in DOMAIN calls, text \in MemoryTexts : MemoryReturn(c, text)
    \/ DiscardSteps

DiscardSpec == DiscardInit /\ [][DiscardNext]_vars

\* OrderSpec: one text turn of the pipeline, with the order in which its
\* agent calls complete on record.
OrderInit ==
    /\ Init
    /\ chats = <<NewChat(1)>>
    /\ model = TEXT_MODEL
    /\ apiKey # <<>>

OrderNext ==
    \/ \E userInput \in UserInputs : turnCount < MaxTurns /\ Submit(userInput, NoFile)
    \/ StageReturns(TRUE)
    \/ Delay1
    \/ Delay2
    \/ \E c \in DOMAIN calls, text \in SynthesisTexts : SynthesisReturn(c, text)

OrderSpec == OrderInit /\ [][OrderNext]_vars

\* PromptSpec: the refinement prompt of line 1247 on its own, for every
\* tuple of initial answers, equal and missing texts included.
PromptAnswers == {<<"A">>, <<"B">>, UNDEFINED}

PromptContext == <<"hi">>

PromptInit ==
    /\ chats = <<NewChat(1)>>
    /\ activeChatId = 1
    /\ clock = 2
    /\ isLoading = FALSE
    /\ loadingStatus = ""
    /\ memory = <<>>
    /\ model = TEXT_MODEL
    /\ apiKey = <<"key">>
    /\ isGroundingEnabled = FALSE
    /\ turn = IdleTurn
    /\ calls = <<>>
    /\ settled = <<>>
    /\ turnCount = 0
    /\ probe \in {[NoProbe EXCEPT !.answers = answers] :
                     answers \in [1..AgentCount -> PromptAnswers]}

\* the callback of initialAnswers.map, lines 1245-1249, for one index
BuildRefinementTurn(index) ==
    /\ probe.index = 0
    /\ probe' = [probe EXCEPT !.index = index,
                     !.turn = RefinementTurn(PromptContext, probe.answers, index)]
    /\ UNCHANGED <<sessions, settings, isLoading, loadingStatus, turn, calls,
                   settled, turnCount>>

PromptNext == \E index \in 1..AgentCount : BuildRefinementTurn(index)

PromptSpec == PromptInit /\ [][PromptNext]_vars

\* =============================================================== claims
\* what the claims observe
TurnChat == MessagesOf(chats, turn.chatId)

\* the messages the session received since the turn was submitted
Appended == SubSeq(TurnChat, Len(turn.messages) + 1, Len(TurnChat))

TurnPending == turn.pc \in {"convert", "history", "bypass", "agents"}

IntermediateTexts ==
    {<<AgentTexts[kind][i]>> : kind \in {"initial", "refinement"}, i \in 1..AgentCount}

IsIntermediate(msg) == \E t \in IntermediateTexts : msg.parts = <<TextPart(t)>>

Succeeded(kind) == {c \in CallsOf(calls, turn.n, kind) : calls[c].status = "ok"}

Failed(kind) == {c \in CallsOf(calls, turn.n, kind) : calls[c].status = "failed"}

\* the i-th call of a kind the turn issued
NthIssued(kind, i) ==
    CHOOSE c \in CallsOf(calls, turn.n, kind) :
        Cardinality({d \in CallsOf(calls, turn.n, kind) : d < c}) = i - 1

\* the text of the last turn a call was given, after the internal-context mark
PromptOf(c) == calls[c].contents[Len(calls[c].contents)].parts[1].text

AfterMark(text) ==
    LET mark == CHOOSE k \in DOMAIN text : text[k] = INTERNAL_MARK[1]
    IN  SubSeq(text, mark + 1, Len(text))

ModelMessages(msgs) == {k \in DOMAIN msgs : msgs[k].role = "model"}

\* the step in which handleSubmit ends
TurnResolves == turn.pc # "done" /\ turn'.pc = "done"

\* C1 (as stated): the step that resolves a submitted turn leaves its
\* session's message list with exactly one model-role message more than at
\* submission, on every outcome, and no step before it appends one.
C1_ExactlyOneModelMessage ==
    [][/\ TurnResolves => Cardinality(ModelMessages(Appended')) = 1
       /\ TurnPending' => ModelMessages(Appended') = {}]_vars

\* C1 (amended): the same for a turn whose session still exists; a session
\* deleted while its turn was pending receives nothing.
C1_ExactlyOneWhileSessionExists ==
    /\ (turn.pc = "done" /\ HasChat(chats, turn.chatId)) =>
          /\ SubSeq(TurnChat, 1, Len(turn.messages)) = turn.messages
          /\ Len(Appended) = 2
          /\ Appended[1] = UserMessage(turn.trimmedInput, turn.attachment)
          /\ Appended[2].role = "model"
          /\ ~IsIntermediate(Appended[2])
    /\ (TurnPending /\ HasChat(chats, turn.chatId)) =>
          /\ Len(Appended) = 1
          /\ Appended[1] = UserMessage(turn.trimmedInput, turn.attachment)
    /\ (turn.pc # "idle" /\ ~HasChat(chats, turn.chatId)) => Appended = <<>>

\* C1 witness: a turn ended by a failed refinement call, in a session that
\* is no longer the active one
C1_Witness ==
    /\ turn.pc = "done"
    /\ turn.outcome = "error"
    /\ Failed("refinement") # {}
    /\ HasChat(chats, turn.chatId)
    /\ activeChatId # turn.chatId
    /\ Len(Appended) = 2

\* C2: a refinement call is in the log only when all four initial calls have
\* succeeded, and the synthesis call only when all four refinement calls have.
C2_StagesInOrder ==
    /\ CallsOf(calls, turn.n, "refinement") # {} =>
          Cardinality(Succeeded("initial")) = AgentCount
    /\ CallsOf(calls, turn.n, "synthesis") # {} =>
          /\ Cardinality(Succeeded("initial")) = AgentCount
          /\ Cardinality(Succeeded("refinement")) = AgentCount

\* C2 witness: the synthesis call has been issued
C2_Witness ==
    /\ CallsOf(calls, turn.n, "synthesis") # {}
    /\ Cardinality(Succeeded("refinement")) = AgentCount

\* the labels of line 1257
C3_Labels ==
    <<"Refined Response 1:", "Refined Response 2:",
      "Refined Response 3:", "Refined Response 4:">>

\* C3: whatever the order of completion, the refinement prompt of the i-th
\* issued call names the i-th issued initial call's result as its own, and the
\* synthesis prompt holds exactly four refined answers, label k being the
\* result of the k-th issued refinement call.
C3_CollectedByIndex ==
    /\ CallsOf(calls, turn.n, "refinement") # {} =>
          \A i \in 1..AgentCount :
              AfterMark(PromptOf(NthIssued("refinement", i)))[2]
                  = calls[NthIssued("initial", i)].text[1]
    /\ \A s \in CallsOf(calls, turn.n, "synthesis") :
          LET listed == AfterMark(PromptOf(s))
          IN  /\ Len(listed) = 1 + 2 * AgentCount
              /\ \A k \in 1..AgentCount :
                    /\ listed[2 * k] = C3_Labels[k]
                    /\ listed[2 * k + 1] = calls[NthIssued("refinement", k)].text[1]

\* C3 witness: the synthesis call is issued after both stages completed in
\* the reverse of the order of issue
C3_Witness ==
    /\ CallsOf(calls, turn.n, "synthesis") # {}
    /\ Len(settled) >= 2 * AgentCount
    /\ \A k \in 1..(2 * AgentCount - 1) :
          k # AgentCount => settled[k] > settled[k + 1]

\* for each index, the other indexes in increasing order
C4_OtherIndexes ==
    << <<2, 3, 4>>, <<1, 3, 4>>, <<1, 2, 4>>, <<1, 2, 3>> >>

C4_Shown(answer) == IF answer = UNDEFINED THEN <<"undefined">> ELSE answer

\* C4: for every index i and every tuple of initial answers, the refinement
\* prompt names answers[i] as the agent's own and lists, as the other agents',
\* the three answers at the other indexes in increasing order.
C4_OwnAndThreeOthers ==
    probe.index # 0 =>
        LET i == probe.index
            a == probe.answers
            o == C4_OtherIndexes[i]
        IN  AfterMark(probe.turn.parts[1].text)
              = <<"My initial response was: ">> \o C4_Shown(a[i])
                \o <<". The other agents responded with: 1. ">> \o C4_Shown(a[o[1]])
                \o <<" 2. ">> \o C4_Shown(a[o[2]])
                \o <<" 3. ">> \o C4_Shown(a[o[3]])
                \o <<". Based on this context, critically re-evaluate.">>

\* C4 witness: the prompt of the second agent, whose answer equals the first's
C4_Witness ==
    /\ probe.index = 2
    /\ probe.answers[1] = probe.answers[2]
    /\ probe.answers[3] # probe.answers[2]
    /\ probe.answers[4] = UNDEFINED

\* two calls were given the same input
C5_SameInput(c, d) ==
    /\ calls[c].model = calls[d].model
    /\ calls[c].contents = calls[d].contents
    /\ calls[c].tools = calls[d].tools
    /\ calls[c].systemInstruction = calls[d].systemInstruction

\* C5: a turn issues either no or exactly four initial calls, all with the same
\* model, turns, tools and system instruction, either no or exactly four
\* refinement calls, and at most one synthesis call, whether calls succeed or
\* fail; a turn that ends with a synthesized answer has issued 4, 4 and 1.
C5_CallCounts ==
    LET initial == CallsOf(calls, turn.n, "initial")
        refinement == CallsOf(calls, turn.n, "refinement")
        synthesis == CallsOf(calls, turn.n, "synthesis")
    IN  /\ Cardinality(initial) \in {0, AgentCount}
        /\ Cardinality(refinement) \in {0, AgentCount}
        /\ Cardinality(synthesis) \in {0, 1}
        /\ \A c, d \in initial : C5_SameInput(c, d)
        /\ \A kind \in {"initial", "refinement"} :
              \A c, d \in CallsOf(calls, turn.n, kind) :
                  calls[c].idx = calls[d].idx => c = d
        /\ turn.outcome = "final" =>
              /\ Cardinality(initial) = AgentCount
              /\ Cardinality(refinement) = AgentCount
              /\ Cardinality(synthesis) = 1

\* C5 witness: a turn in which no call failed has ended with its answer
C5_Witness ==
    /\ turn.outcome = "final"
    /\ \A c \in DOMAIN calls : calls[c].status = "ok"
    /\ Cardinality(Succeeded("initial")) = AgentCount

\* the turn ended with one message, which is no synthesized answer
C6_AbortedOnError ==
    /\ turn.pc = "done"
    /\ turn.outcome = "error"
    /\ Cardinality(ModelMessages(Appended)) = 1
    /\ \A k \in ModelMessages(Appended), t \in SynthesisTexts :
          Appended[k].parts # <<TextPart(t)>>

\* C6: once an initial call has failed the log holds no refinement and no
\* synthesis call of the turn, once a refinement call has failed it holds no
\* synthesis call, and in both cases the turn has ended with an error message
\* and not with a synthesized answer.
C6_FailureAborts ==
    /\ \A c \in Failed("initial") :
          /\ CallsOf(calls, turn.n, "refinement") = {}
          /\ CallsOf(calls, turn.n, "synthesis") = {}
          /\ C6_AbortedOnError
    /\ \A c \in Failed("refinement") :
          /\ CallsOf(calls, turn.n, "synthesis") = {}
          /\ C6_AbortedOnError

\* C6 witness: a refinement call failed after another one had returned
C6_Witness ==
    /\ Failed("refinement") # {}
    /\ Succeeded("refinement") # {}
    /\ turn.pc = "done"

\* the text each category of error is answered with
C7_Contains(message, token) == \E k \in DOMAIN message : message[k] = token

C7_Text(message) ==
    IF C7_Contains(message, "RESOURCE_EXHAUSTED")
    THEN <<"Anda telah melebihi kuota API Anda saat ini.">>
    ELSE IF C7_Contains(message, "API key not valid")
    THEN <<"API key tidak valid.">>
    ELSE <<"Terjadi kesalahan: ">> \o message

\* C7: the error message appended after a Gateway failure is the quota text
\* when the error's message contains RESOURCE_EXHAUSTED, else the credential
\* text when it contains 'API key not valid', else the generic text with the
\* error's detail; the stage and the agent index of the failed call play no part.
C7_TextByCategory ==
    (turn.outcome = "error" /\ turn.error \in GatewayErrors) =>
        /\ Len(Appended) = 2
        /\ Appended[2] = ModelMessage(<<TextPart(C7_Text(turn.error.message))>>, FALSE)

\* C7 witness: the third refinement call failed with an error of both
\* categories
C7_Witness ==
    /\ turn.outcome = "error"
    /\ C7_Contains(turn.error.message, "RESOURCE_EXHAUSTED")
    /\ C7_Contains(turn.error.message, "API key not valid")
    /\ \E c \in Failed("refinement") : calls[c].idx = 3

C8_AnswerStep == turn.outcome # "final" /\ turn'.outcome = "final"

C9_PipelineSucceeded ==
    /\ Cardinality(Succeeded("initial")) = AgentCount
    /\ Cardinality(Succeeded("refinement")) = AgentCount
    /\ Cardinality(Succeeded("synthesis")) = 1

\* C9: when the memory call has failed and every call of the pipeline has
\* succeeded, the turn has ended with the synthesized answer as its one model
\* message and the memory store is as it was at submission; a turn whose
\* memory call failed ends in an error only if a call of the pipeline failed.
C9_MemoryFailureIsolated ==
    \A c \in Failed("memory") :
        /\ C9_PipelineSucceeded =>
              /\ turn.pc = "done"
              /\ turn.outcome = "final"
              /\ Len(Appended) = 2
              /\ Appended[2].role = "model"
              /\ \E s \in Succeeded("synthesis") :
                    Appended[2].parts = <<TextPart(calls[s].text)>>
              /\ memory = turn.memory
        /\ turn.outcome = "error" =>
              Failed("initial") \cup Failed("refinement") \cup Failed("synthesis") # {}

\* C9 witness: the memory call failed after the synthesis call had returned
C9_Witness ==
    /\ Failed("memory") # {}
    /\ C9_PipelineSucceeded
    /\ turn.outcome = "final"
    /\ turn.memory # <<>>

\* C10 (as stated): once the synthesis call has returned, the synthesized
\* answer is eventually appended, also when the memory call never returns.
C10_AnswerNotDelayed ==
    (Succeeded("synthesis") # {}) ~> (turn.outcome = "final" /\ Len(Appended) = 2)

\* C11: a turn whose trimmed text is empty (an attachment alone, with or
\* without blanks typed) has issued no memory call, and the memory store is
\* as it was at submission.
C11_NoMemoryCallWithoutText ==
    (turn.pc # "idle" /\ turn.trimmedInput = <<>>) =>
        /\ CallsOf(calls, turn.n, "memory") = {}
        /\ memory = turn.memory

\* C11 witness: blanks and an attachment were submitted and the pipeline
\* has answered
C11_Witness ==
    /\ turn.outcome = "final"
    /\ turn.userInput # <<>>
    /\ turn.trimmedInput = <<>>
    /\ turn.attachment # NoFile
    /\ turn.memory # <<>>

\* C12 (as stated): when the turn's outcome is applied and the memory store
\* holds a fact string-equal to the proposed one, the store is left as it is,
\* also when that fact was saved in the settings dialog while the turn was
\* pending; no fact is twice in the store.
C12_NoDuplicateFact ==
    [][(/\ TurnResolves
        /\ turn'.outcome = "final"
        /\ SeqIncludes(memory, turn'.newMemory))
          => memory' = memory]_vars

\* the calls of the turn's three stages
StageCalls ==
    {c \in DOMAIN calls : /\ calls[c].turn = turn.n
                          /\ calls[c].kind \in {"initial", "refinement", "synthesis"}}

\* C13: a turn submitted with grounding enabled and a model other than the
\* image model carries the web-search tool in every Stage 1, 2 and 3 call it
\* issues; a turn submitted with the image model carries it in no call.
C13_SearchTool ==
    /\ (turn.pc # "idle" /\ turn.isGroundingEnabled /\ turn.model # IMAGE_MODEL)
          => \A c \in StageCalls : calls[c].tools
    /\ (turn.pc # "idle" /\ turn.model = IMAGE_MODEL)
          => \A c \in DOMAIN calls : calls[c].turn = turn.n => ~calls[c].tools

\* C13 witness: a grounded turn went through its three stages, and the user
\* has switched grounding off since
C13_Witness ==
    /\ turn.outcome = "final"
    /\ turn.isGroundingEnabled
    /\ ~isGroundingEnabled
    /\ Cardinality(StageCalls) = 2 * AgentCount + 1
    /\ \A c \in StageCalls : calls[c].tools

\* the calls the turn issued, of every kind
TurnCalls == {c \in DOMAIN calls : calls[c].turn = turn.n}

\* C14 (as stated): a turn answered on the image model's path has issued
\* exactly one Gateway call, of whatever kind.
C14_ExactlyOneCall ==
    (turn.model = IMAGE_MODEL /\ turn.outcome = "bypass")
        => Cardinality(TurnCalls) = 1

\* C14 (amended): a turn submitted with the image model issues no Stage 1, 2
\* or 3 call and no memory call; it issues one bypass call once it is past
\* the key check and the attachment conversion, and besides that only the
\* title call of a session's first message; the segments the bypass call
\* returns are the parts of the one message appended after the user's.
C14_OneBypassCall ==
    (turn.pc # "idle" /\ turn.model = IMAGE_MODEL) =>
        /\ StageCalls = {}
        /\ CallsOf(calls, turn.n, "memory") = {}
        /\ Cardinality(CallsOf(calls, turn.n, "bypass")) =
              (IF turn.pc = "bypass" \/ turn.outcome = "bypass"
                  \/ (turn.outcome = "error" /\ turn.apiKey # <<>>)
               THEN 1 ELSE 0)
        /\ Cardinality(CallsOf(calls, turn.n, "title")) =
              (IF turn.messages = <<>> /\ turn.apiKey # <<>> THEN 1 ELSE 0)
        /\ TurnCalls = CallsOf(calls, turn.n, "bypass")
                          \cup CallsOf(calls, turn.n, "title")
        /\ \A c \in CallsOf(calls, turn.n, "bypass") :
              (calls[c].status = "ok" /\ calls[c].text # UNDEFINED)
                  => /\ Len(Appended) = 2
                     /\ Appended[2] = ModelMessage(calls[c].text, FALSE)

\* C14 witness: the first message of a session, answered with a text and an
\* image segment, the title call issued as well
C14_Witness ==
    /\ turn.model = IMAGE_MODEL
    /\ turn.outcome = "bypass"
    /\ turn.messages = <<>>
    /\ Cardinality(TurnCalls) = 2
    /\ Len(Appended) = 2
    /\ Len(Appended[2].parts) = 2

\* C15 (as stated): a turn with non-empty text that the image model answered
\* on the bypass path has issued one memory call as well.
C15_MemoryRunsOnBypass ==
    (turn.model = IMAGE_MODEL /\ turn.outcome = "bypass" /\ turn.trimmedInput # <<>>)
        => Cardinality(CallsOf(calls, turn.n, "memory")) = 1

\* C16: a turn submitted when no API key is available has issued no Gateway
\* call of any kind, the title call of a first message included, and has
\* ended with one error message appended after the user's.
C16_NoKeyNoCall ==
    (turn.pc # "idle" /\ turn.apiKey = <<>>) =>
        /\ TurnCalls = {}
        /\ turn.pc = "done"
        /\ turn.outcome = "error"
        /\ Len(Appended) = 2
        /\ Appended[2].role = "model"
        /\ Appended[2].parts =
              <<TextPart(<<"Terjadi kesalahan: ",
                           "API key is not set. Please add it in Settings.">>)>>

\* C16 witness: the first message of a session, submitted without a key
C16_Witness ==
    /\ turn.pc = "done"
    /\ turn.apiKey = <<>>
    /\ turn.messages = <<>>
    /\ turn.attachment # NoFile
    /\ calls = <<>>
    /\ Cardinality(ModelMessages(Appended)) = 1

\* C17 (as stated): a turn whose attachment could not be converted has ended
\* with the fixed apology appended and has issued no Gateway call of any
\* kind, also when it is the first message of its session.
C17_NoCallOnConversionFailure ==
    turn.outcome = "apology" =>
        /\ TurnCalls = {}
        /\ Len(Appended) = 2
        /\ Appended[2] = ModelMessage(<<TextPart(APOLOGY_TEXT)>>, FALSE)

\* the texts of the model-role messages the session received in the turn
AppendedTexts ==
    {Appended[k].parts[1].text : k \in ModelMessages(Appended)}

\* C18 (as stated): whichever response comes without text, no prompt of a
\* later call of the turn holds an interpolated "undefined", and the text
\* stored as the final message is neither undefined nor empty: the fallback
\* string stands in its place.
C18_FallbackForMissingText ==
    /\ \A c \in StageCalls : ~Includes(PromptOf(c), "undefined")
    /\ UNDEFINED \notin AppendedTexts
    /\ <<>> \notin AppendedTexts

\* C19: a submission is accepted only when no turn is pending, in whichever
\* session the user is, and a pending turn keeps isLoading true; so the
\* turn of a second handleSubmit starts after the first has resolved.
C19_OneTurnPending ==
    [][/\ TurnPending' => isLoading'
       /\ turnCount' # turnCount => (~TurnPending /\ ~isLoading)]_vars

\* C19 witness: a turn is pending and the user has moved to another session
C19_Witness ==
    /\ TurnPending
    /\ isLoading
    /\ activeChatId # turn.chatId
    /\ turnCount < MaxResubmitTurns

\* the stored sessions in which a user-role message holds a part of inline
\* bytes
StoredInlineParts ==
    {k \in DOMAIN chats :
        \E j \in DOMAIN chats[k].messages :
            /\ chats[k].messages[j].role = "user"
            /\ \E p \in DOMAIN chats[k].messages[j].parts :
                  chats[k].messages[j].parts[p].type = "inlineData"}

\* C20: whatever buildApiHistory and the pipeline have done, the messages the
\* session held at submission are stored as they were, parts included, and
\* no stored user message holds the bytes of its attachment.
C20_StoredConversationUnchanged ==
    /\ (turn.pc # "idle" /\ HasChat(chats, turn.chatId))
          => SubSeq(TurnChat, 1, Len(turn.messages)) = turn.messages
    /\ StoredInlineParts = {}

\* C20 witness: the history held a message with a file, the file was read and
\* its bytes sent ahead of the message's text, and the turn was answered
C20_Witness ==
    /\ turn.outcome = "final"
    /\ FileIndexes(turn.messages) # {}
    /\ \E c \in StageCalls :
          /\ calls[c].kind = "synthesis"
          /\ calls[c].contents[1].parts[1].type = "inlineData"
    /\ Len(TurnChat[1].parts) = 1

\* the calls of the turn that are given the conversation
ConversationCalls == StageCalls \cup CallsOf(calls, turn.n, "bypass")

\* C21: when some file reads of the history build have failed, the list built
\* has one turn per stored message, in their order and with their roles; the
\* turns whose read failed have the message's own parts and nothing else, the
\* other turns with a file have its bytes ahead of them; and the turn goes on
\* to its Gateway calls, ending in an error only when one of those fails.
C21_FailedFileOmitted ==
    (turn.pc \in {"bypass", "agents", "done"} /\ turn.failedFiles # {}) =>
        LET history == turn.mainChatHistory
            messages == turn.messages
        IN  /\ Len(history) = Len(messages)
            /\ \A k \in DOMAIN messages :
                  /\ history[k].role = messages[k].role
                  /\ history[k].parts =
                        IF messages[k].role = "user" /\ messages[k].file # NoFile
                           /\ k \notin turn.failedFiles
                        THEN <<InlinePart(messages[k].file)>> \o messages[k].parts
                        ELSE messages[k].parts
            /\ ConversationCalls # {}
            /\ \A c \in ConversationCalls :
                  SubSeq(calls[c].contents, 1, Len(messages)) = history
            /\ turn.outcome = "error" =>
                  \E c \in ConversationCalls : calls[c].status = "failed"

\* C21 witness: of two files in the history the first could not be read, the
\* second could, and the turn was answered
C21_Witness ==
    /\ turn.outcome = "final"
    /\ turn.failedFiles = {1}
    /\ Len(turn.mainChatHistory) = 4
    /\ Len(turn.mainChatHistory[1].parts) = 1
    /\ Len(turn.mainChatHistory[3].parts) = 2

\* the Stage 2 and Stage 3 calls of the turn
LaterStageCalls == {c \in StageCalls : calls[c].kind # "initial"}

\* the texts the agents have answered with so far
AnswerTexts == {calls[c].text : c \in {d \in StageCalls : calls[d].status = "ok"}}

\* C22: every refinement call and the synthesis call are given the history
\* built from the messages stored before the turn, followed by one user turn
\* of a single text part; the user turn the initial calls were given is not
\* among the turns, nor is a turn made of an agent's answer: the list has one
\* turn more than the session had messages.
C22_HistoryPlusOne ==
    \A c \in LaterStageCalls :
        LET contents == calls[c].contents
            last == contents[Len(contents)]
        IN  /\ Len(contents) = Len(turn.messages) + 1
            /\ SubSeq(contents, 1, Len(turn.messages)) = turn.mainChatHistory
            /\ last.role = "user"
            /\ Len(last.parts) = 1
            /\ last.parts[1].type = "text"
            /\ \A k \in DOMAIN contents :
                  /\ k > Len(turn.messages) =>
                        contents[k] # Content("user", turn.userPartsForApi)
                  /\ \A text \in AnswerTexts :
                        k > Len(turn.messages) =>
                            contents[k].parts # <<TextPart(text)>>

\* C22 witness: a turn with an attachment in a session of four messages was
\* answered; its initial calls were given five turns, and so were the four
\* refinement calls and the synthesis call
C22_Witness ==
    /\ turn.outcome = "final"
    /\ turn.attachment # NoFile
    /\ Len(turn.messages) = 4
    /\ Cardinality(LaterStageCalls) = AgentCount + 1
    /\ \A c \in StageCalls : Len(calls[c].contents) = 5

\* C23 (as stated): every turn of the list the memory call is given holds
\* text parts alone, whether it stands for the current message or for a
\* stored one with a file.
C23_MemoryCallTextOnly ==
    \A c \in CallsOf(calls, turn.n, "memory") :
        \A k \in DOMAIN calls[c].contents :
            \A p \in DOMAIN calls[c].contents[k].parts :
                calls[c].contents[k].parts[p].type = "text"

\* the status the indicator is to show at each point of a pending turn; ""
\* stands for no stage entered yet
StatusOf(t) ==
    IF t.pc \in {"convert", "history"} /\ t.model # IMAGE_MODEL THEN {""}
    ELSE IF t.model = IMAGE_MODEL THEN {"", "Nano banana"}
    ELSE IF t.stage \in {"initial", "delay1"} THEN {"Initializing agents..."}
    ELSE IF t.stage \in {"refinement", "delay2"} THEN {"Refining answers..."}
    ELSE {"Synthesizing final response..."}

\* C24 (as stated): while a turn is pending the status displayed is the one
\* of the stage the turn is in (Initializing, then Refining, then
\* Synthesizing) on the pipeline path and the bypass status on the bypass
\* path, never the status of the other path or the one a previous turn left.
C24_StatusOfThisTurn ==
    (TurnPending /\ isLoading) => loadingStatus \in StatusOf(turn)

\* a pipeline or memory call of a turn that has ended, or of an earlier turn,
\* settles in this step
LateCallSettles ==
    \E c \in DOMAIN calls :
        /\ calls[c].kind \in {"initial", "refinement", "synthesis", "memory"}
        /\ calls[c].status = "pending"
        /\ calls[c].turn # turn.n \/ turn.pc = "done"
        /\ c \in DOMAIN calls'
        /\ calls'[c].status # "pending"

\* C25: when a call of an aborted turn returns or fails afterwards, no
\* session's messages, nor the memory store, nor the loading flag change,
\* and a newer turn that is pending by then is where it was.
C25_LateResultsDiscarded ==
    [][LateCallSettles =>
          /\ chats' = chats
          /\ memory' = memory
          /\ isLoading' = isLoading
          /\ turn' = turn]_vars

\* C25 witness: the first turn failed with its memory call in flight; the
\* second turn is pending and that memory call has been discarded
C25_Witness ==
    /\ turn.n = 2
    /\ turn.pc = "agents"
    /\ \E c \in DOMAIN calls :
          /\ calls[c].turn = 1
          /\ calls[c].kind = "memory"
          /\ calls[c].status = "discarded"

\* C26: the step that resolves a turn leaves every session other than the
\* one the turn was submitted in as it was, whichever session is active by
\* then and whichever sessions were created or deleted meanwhile; the
\* outcome message goes to the submitting session if it still exists.
C26_OutcomeInSubmittingSession ==
    [][TurnResolves =>
          /\ WithoutChat(chats', turn'.chatId) = WithoutChat(chats, turn'.chatId)
          /\ HasChat(chats, turn'.chatId) =>
                /\ Len(MessagesOf(chats', turn'.chatId))
                      > Len(MessagesOf(chats, turn'.chatId))
                /\ MessagesOf(chats', turn'.chatId)[Len(MessagesOf(chats', turn'.chatId))].role
                      = "model"]_vars

\* C26 witness: the turn was answered while the user was in another session,
\* which has no message
C26_Witness ==
    /\ turn.outcome = "final"
    /\ activeChatId # turn.chatId
    /\ HasChat(chats, turn.chatId)
    /\ HasChat(chats, activeChatId)
    /\ MessagesOf(chats, activeChatId) = <<>>
    /\ Len(Appended) = 2

\* the message the resolving step appends
OutcomeMessage == MessagesOf(chats', turn'.chatId)[Len(MessagesOf(chats', turn'.chatId))]

\* C27 (as stated): the final message a turn appends is flagged
\* memoryUpdated only if the same step adds a fact to the memory store; a
\* turn whose fact was rejected as a duplicate appends an unflagged message.
C27_FlagOnlyIfAdded ==
    [][(TurnResolves /\ turn'.outcome = "final" /\ HasChat(chats, turn'.chatId)) =>
          (OutcomeMessage.memoryUpdated =>
              /\ memory' # memory
              /\ Len(memory') = Len(memory) + 1)]_vars

\* C28: a turn that ended in an error has left the memory store as it was
\* at submission, whether its memory call returned a new fact before the
\* failure, returns one after it, or never returns.
C28_FailedTurnKeepsMemory ==
    turn.outcome = "error" => memory = turn.memory

\* C28 witness: the memory call had returned a fact the store does not hold
\* when a call of the pipeline failed
C28_Witness ==
    /\ turn.outcome = "error"
    /\ turn.newMemory = <<"fact1">>
    /\ turn.memory = <<>>
    /\ Failed("refinement") # {}

\* the system instruction of a call without its last element, the stage's
\* own instruction: the memory context
MemoryContextOf(c) ==
    SubSeq(calls[c].systemInstruction, 1, Len(calls[c].systemInstruction) - 1)

\* C29: all Stage 1, 2 and 3 calls of a turn carry the model, the grounding
\* flag and the API key the turn was submitted with, and one and the same
\* memory context, whatever the user has selected, toggled or saved in the
\* settings since.
C29_ConfigurationOfSubmission ==
    \A c \in StageCalls :
        /\ calls[c].model = turn.model
        /\ calls[c].tools = turn.isGroundingEnabled
        /\ calls[c].apiKey = turn.apiKey
        /\ \A d \in StageCalls : MemoryContextOf(d) = MemoryContextOf(c)
        /\ (turn.memory = <<>>) = (MemoryContextOf(c) = <<>>)

\* C29 witness: the turn was answered by its nine calls, and the model, the
\* grounding flag, the key and the memory store are all other than at
\* submission
C29_Witness ==
    /\ turn.outcome = "final"
    /\ Cardinality(StageCalls) = 2 * AgentCount + 1
    /\ model # turn.model
    /\ isGroundingEnabled # turn.isGroundingEnabled
    /\ apiKey # turn.apiKey
    /\ turn.memory = <<>>
    /\ Len(memory) = 2

\* C30: when every call and every file read ends, a turn that has set the
\* loading flag comes to its end with the flag cleared, so that the form
\* accepts the next submission.
C30_TurnResolves ==
    \A n \in 1..(MaxTurns + 1) :
        (turn.n = n /\ isLoading)
            ~> (turn.n = n /\ turn.pc = "done" /\ ~isLoading /\ ~SubmitDisabled)

\* C30 witness: a turn that a failed pipeline call ended while its memory
\* call was outstanding, the flag cleared
C30_Witness ==
    /\ turn.pc = "done"
    /\ turn.outcome = "error"
    /\ turn.stage = "rejected"
    /\ turn.memoryPromise = "pending"
    /\ ~isLoading

====
